---- MODULE Spec2Model ----
(***************************************************************************)
(* Gateway websocket adapter of serenity: src/internal/ws_impl.rs.         *)
(*                                                                         *)
(* Two state machines share this module.                                   *)
(*   Spec        - the frame codec (recv_json, try_recv_json, send_json)   *)
(*                 over one established WsClient, together with the peer   *)
(*                 and the byte stream underneath it.                      *)
(*   ConnectSpec - create_rustls_client, one call per behaviour.           *)
(***************************************************************************)
EXTENDS Integers, Sequences, FiniteSets, TLC

(***************************************************************************)
(* Bounds of the model.                                                    *)
(***************************************************************************)
\* frames the peer sends over the life of the connection
MaxFrames == 2
\* successful send_json calls over the life of the connection
MaxSends == 1
\* length of the host strings given to create_rustls_client
MaxHostLen == 4

(***************************************************************************)
(* Build configuration: the "raw-ws-event" feature (lines 61-74).          *)
(***************************************************************************)
RawWsEvent == TRUE

(***************************************************************************)
(* Structured values (serde_json::Value), restricted to null and           *)
(* non-negative integers.                                                  *)
(***************************************************************************)
Null == [t |-> "null", n |-> 0]
Num(k) == [t |-> "num", n |-> k]
\* the values handed to send_json
Values == {Num(12)}

Digits == <<"0", "1", "2", "3", "4", "5", "6", "7", "8", "9">>
DigitChars == {Digits[i] : i \in 1..10}
DigitVal(c) == (CHOOSE i \in 1..10 : Digits[i] = c) - 1
Whitespace == {" "}

\* Result<Value, serde_json::Error>
OkV(v) == [ok |-> TRUE, val |-> v, err |-> "none"]
ErrV(e) == [ok |-> FALSE, val |-> Null, err |-> e]

RECURSIVE TrimLeft(_)
TrimLeft(s) ==
    IF s # <<>> /\ Head(s) \in Whitespace THEN TrimLeft(Tail(s)) ELSE s

RECURSIVE TrimRight(_)
TrimRight(s) ==
    IF s # <<>> /\ s[Len(s)] \in Whitespace
    THEN TrimRight(SubSeq(s, 1, Len(s) - 1))
    ELSE s

RECURSIVE DecimalValue(_)
DecimalValue(s) ==
    IF s = <<>> THEN 0
    ELSE 10 * DecimalValue(SubSeq(s, 1, Len(s) - 1)) + DigitVal(s[Len(s)])

\* serde_json::from_str: surrounding whitespace is skipped, then the text has
\* to be one JSON value; a number has no leading zero.
from_str(payload) ==
    LET body == TrimRight(TrimLeft(payload)) IN
    IF body = <<"n", "u", "l", "l">> THEN OkV(Null)
    ELSE IF /\ body # <<>>
            /\ \A i \in 1..Len(body) : body[i] \in DigitChars
            /\ (Len(body) > 1 => body[1] # "0")
         THEN OkV(Num(DecimalValue(body)))
         ELSE ErrV("Json")

RECURSIVE DecimalDigits(_)
DecimalDigits(k) ==
    IF k < 10 THEN <<Digits[k + 1]>>
    ELSE Append(DecimalDigits(k \div 10), Digits[(k % 10) + 1])

\* serde_json::to_string
to_string(value) ==
    IF value.t = "null" THEN <<"n", "u", "l", "l">> ELSE DecimalDigits(value.n)

\* flate2 ZlibDecoder: a zlib stream is a header followed by the content;
\* here the byte "Z" stands for the two-byte header and the content is
\* stored uncompressed. An input that ends before a header is complete (no
\* byte, or one byte) reads as a clean end of stream: no data and no error.
\* Longer input without the header does not inflate.
ZlibDecoder(bytes) ==
    IF bytes # <<>> /\ Head(bytes) = "Z"
    THEN [ok |-> TRUE, data |-> Tail(bytes)]
    ELSE IF Len(bytes) < 2
    THEN [ok |-> TRUE, data |-> <<>>]
    ELSE [ok |-> FALSE, data |-> <<>>]

\* serde_json::from_reader over the inflating reader: a read error of the
\* reader and a syntax error of the inflated text are both a serde_json error.
from_reader(bytes) ==
    LET inflated == ZlibDecoder(bytes) IN
    IF inflated.ok THEN from_str(inflated.data) ELSE ErrV("Json")

(***************************************************************************)
(* Wire frames (tungstenite::Message).                                     *)
(***************************************************************************)
Frame(k, d) == [kind |-> k, data |-> d]

\* payloads of the Text frames: a value with whitespace, broken syntax, and a
\* zlib stream that is no text of a value
TextPayloads ==
    { <<" ", "1", "2">>,
      <<"1", "n">>,
      <<"Z", " ", "1", "2">> }
\* payloads of the Binary frames: the zlib stream of a value, the zlib stream
\* of broken syntax, the text of a value that is no zlib stream, and the
\* text of a value that is too short for a zlib header
BinaryPayloads ==
    { <<"Z", " ", "1", "2">>,
      <<"Z", "1", "n">>,
      <<" ", "1", "2">>,
      <<"1">> }
PingPayloads == { <<"1">>, <<"2">> }

Frames ==
    {Frame("Text", d) : d \in TextPayloads}
        \cup {Frame("Binary", d) : d \in BinaryPayloads}
        \cup {Frame("Ping", d) : d \in PingPayloads}
        \cup {Frame("Pong", <<"1">>), Frame("Close", <<>>)}

NoFrame == Frame("None", <<>>)

\* Option<Message>
SomeMsg(m) == [some |-> TRUE, msg |-> m]
NoMsg == [some |-> FALSE, msg |-> NoFrame]

(***************************************************************************)
(* The codec: pure part (lines 55-110).                                    *)
(***************************************************************************)
\* WsEvent built from the frame (lines 60-74)
WsEvent(msg) == IF RawWsEvent THEN msg ELSE Frame("WsEvent", <<>>)

\* Result<Option<Value>>
InnerOk(s, v) == [ok |-> TRUE, some |-> s, val |-> v, err |-> "none"]
InnerErr(e) == [ok |-> FALSE, some |-> FALSE, val |-> Null, err |-> e]

\* the mapping of a parse result: .map(Some) ... ? (lines 89, 94, 97, 105)
MapSome(r) == IF r.ok THEN InnerOk(TRUE, r.val) ELSE InnerErr(r.err)

\* as convert_ws_message_inner, a Binary frame parsed without inflating it
convert_ws_message_inner_no_inflate(message) ==
    IF message.kind = "Binary" THEN MapSome(from_str(message.data))
    ELSE IF message.kind = "Text" THEN MapSome(from_str(message.data))
    ELSE InnerOk(FALSE, Null)

\* as convert_ws_message_inner, the other frames decoded as a null value
convert_ws_message_inner_ctl_null(message) ==
    IF message.kind = "Binary" THEN MapSome(from_reader(message.data))
    ELSE IF message.kind = "Text" THEN MapSome(from_str(message.data))
    ELSE InnerOk(TRUE, Null)

convert_ws_message_inner(message) ==
    IF message.kind = "Binary" THEN MapSome(from_reader(message.data))
    ELSE IF message.kind = "Text" THEN MapSome(from_str(message.data))
    ELSE InnerOk(FALSE, Null)

\* as warn, the inflated bytes logged in place of the frame's bytes
warn_inflated(message) ==
    IF message.kind = "Binary" /\ ~from_reader(message.data).ok
    THEN <<[what |-> "bytes", why |-> from_reader(message.data).err,
            data |-> ZlibDecoder(message.data).data]>>
    ELSE IF message.kind = "Text" /\ ~from_str(message.data).ok
    THEN <<[what |-> "text", why |-> from_str(message.data).err,
            data |-> message.data]>>
    ELSE <<>>

\* the records warn! writes while convert_ws_message_inner runs
warn(message) ==
    IF message.kind = "Binary" /\ ~from_reader(message.data).ok
    THEN <<[what |-> "bytes", why |-> from_reader(message.data).err,
            data |-> message.data]>>
    ELSE IF message.kind = "Text" /\ ~from_str(message.data).ok
    THEN <<[what |-> "text", why |-> from_str(message.data).err,
            data |-> message.data]>>
    ELSE <<>>

\* as transpose, an error dropped (Result::ok().flatten())
transpose_drop_err(r) ==
    IF r.ok
    THEN [some |-> r.some, res |-> OkV(r.val)]
    ELSE [some |-> FALSE, res |-> OkV(Null)]

\* Result<Option<Value>>::transpose -> Option<Result<Value>>
transpose(r) ==
    IF r.ok
    THEN [some |-> r.some, res |-> OkV(r.val)]
    ELSE [some |-> TRUE, res |-> ErrV(r.err)]

\* Option<(WsEvent, Result<Value>)>
NoEvent == [some |-> FALSE, event |-> NoFrame, res |-> OkV(Null)]
SomeEvent(e, r) == [some |-> TRUE, event |-> e, res |-> r]

convert_ws_message(message) ==
    IF ~message.some THEN NoEvent
    ELSE LET raw_event == WsEvent(message.msg)
             t == transpose(convert_ws_message_inner(message.msg))
         IN  IF ~t.some THEN NoEvent ELSE SomeEvent(raw_event, t.res)

\* Result<Message> and Result<Option<Message>> of the transport
ReadOk(m) == [ok |-> TRUE, err |-> "none", opt |-> SomeMsg(m)]
ReadErr(e) == [ok |-> FALSE, err |-> e, opt |-> NoMsg]

\* tungstenite::util::NonBlockingResult::no_block (line 42): of the errors
\* only Io(WouldBlock) becomes Ok(None)
no_block(r) ==
    IF r.ok THEN r
    ELSE IF r.err = "WouldBlock" THEN [ok |-> TRUE, err |-> "none", opt |-> NoMsg]
    ELSE r

\* Result<Option<(WsEvent, Result<Value>)>> and Result<()>
RetOk(o) == [ok |-> TRUE, err |-> "none", opt |-> o]
RetErr(e) == [ok |-> FALSE, err |-> e, opt |-> NoEvent]

(***************************************************************************)
(* State of the codec machine.                                             *)
(***************************************************************************)
VARIABLES
    arrived,      \* frames the peer has sent, in order
    consumed,     \* how many of them read_message has returned
    stream,       \* the byte stream: "open", "eof" or "failed"
    pong,         \* the Pong reply the transport still owes (Option<bytes>)
    transmitted,  \* frames written to the peer, in order
    sentVals,     \* the values of the send_json calls that returned Ok(())
    log,          \* records written by warn!
    last,         \* the last call of the caller and what it returned
    dead,         \* a receive call has seen Close or a stream failure
    pc,           \* the call the caller is inside: "idle", "recv_json",
                  \* "try_recv_json"
    mode,         \* how reads of the stream wait, one of StreamModes
    host, tcpOk, certTrusted, upgradeOk,   \* inputs of create_rustls_client
    baseHost,     \* the name the certificate is validated against
    connPc,       \* "idle" before the call, "done" after
    stages,       \* the fallible stages the call ran, in order
    sockets,      \* TCP sockets the call opened
    connResult    \* what the call returned

codecVars == <<arrived, consumed, stream, pong, transmitted, sentVals, log,
               last, dead, pc, mode>>
connVars == <<host, tcpOk, certTrusted, upgradeOk, baseHost, connPc, stages,
              sockets, connResult>>
vars == <<codecVars, connVars>>

NoPong == [some |-> FALSE, data |-> <<>>]
SomePong(d) == [some |-> TRUE, data |-> d]

Inbound == SubSeq(arrived, consumed + 1, Len(arrived))
PeerClosed == \E i \in 1..Len(arrived) : arrived[i].kind = "Close"
CloseRead == \E i \in 1..consumed : arrived[i].kind = "Close"

(***************************************************************************)
(* The transport under the codec (WsClient): what read_message and         *)
(* write_message do with the stream, the pending Pong and the close state. *)
(* A read of a blocking stream waits for a frame, the end of the stream or *)
(* a failure. A read of a polling stream does not wait when none of them   *)
(* is there: a non-blocking socket gives Io(WouldBlock), and so does a     *)
(* socket with a read timeout where the platform reports the timeout that  *)
(* way ("polling"); where the platform reports it as Io(TimedOut), the     *)
(* read gives that ("polling_timed_out").                                  *)
(***************************************************************************)
StreamModes == {"blocking", "polling", "polling_timed_out"}

\* the error of a read of a polling stream that found nothing
IdleErr == IF mode = "polling_timed_out" THEN "TimedOut" ELSE "WouldBlock"
\* the read errors that say "nothing there yet", not that the stream is gone
IdleErrs == {"WouldBlock", "TimedOut"}

\* the pending Pong goes out ahead of anything else that is written
write_pending ==
    IF pong.some THEN Append(transmitted, Frame("Pong", pong.data))
    ELSE transmitted

\* read_message, on entry: what is pending is written before the read
read_message_enter ==
    IF stream = "failed"
    THEN [pong |-> pong, transmitted |-> transmitted]
    ELSE [pong |-> NoPong, transmitted |-> write_pending]

\* read_message has something to return
read_message_ready ==
    stream # "open" \/ consumed < Len(arrived) \/ mode # "blocking"

\* read_message, on return
read_message ==
    IF stream = "failed"
    THEN [ret |-> ReadErr("Io"), consumed |-> consumed, pong |-> pong]
    ELSE IF consumed < Len(arrived)
    THEN LET m == arrived[consumed + 1] IN
         [ret |-> ReadOk(m), consumed |-> consumed + 1,
          pong |-> IF m.kind = "Ping" THEN SomePong(m.data) ELSE pong]
    ELSE [ret |-> ReadErr(IF stream = "eof" THEN "ConnectionClosed"
                                           ELSE IdleErr),
          consumed |-> consumed, pong |-> pong]

write_message(m) ==
    IF stream = "failed"
    THEN [ok |-> FALSE, err |-> "Io", pong |-> pong,
          transmitted |-> transmitted]
    ELSE IF CloseRead
    THEN [ok |-> FALSE, err |-> "Protocol", pong |-> pong,
          transmitted |-> transmitted]
    ELSE [ok |-> TRUE, err |-> "none", pong |-> NoPong,
          transmitted |-> Append(write_pending, m)]

(***************************************************************************)
(* The codec: the three calls (lines 36-53). A receive call is two steps:  *)
(* the caller enters self.read_message(), and read_message returns.        *)
(***************************************************************************)
Call(op, got, ret) == [op |-> op, wasDead |-> dead, got |-> got, ret |-> ret]

\* the caller enters a receive call
Entered(op) ==
    /\ pc = "idle"
    /\ pc' = op
    /\ pong' = read_message_enter.pong
    /\ transmitted' = read_message_enter.transmitted
    /\ UNCHANGED <<arrived, consumed, stream, sentVals, log, last, dead,
                   mode, connVars>>

\* what a receive call whose read returned `r` leaves behind
Received(op, r, ret) ==
    /\ pc = op
    /\ read_message_ready
    /\ pc' = "idle"
    /\ consumed' = r.consumed
    /\ pong' = r.pong
    /\ log' = IF r.ret.ok THEN log \o warn(r.ret.opt.msg) ELSE log
    /\ last' = Call(op, r.ret.opt, ret)
    /\ dead' = (dead \/ (r.ret.ok /\ r.ret.opt.msg.kind = "Close")
                     \/ (~r.ret.ok /\ r.ret.err \notin IdleErrs))
    /\ UNCHANGED <<arrived, stream, transmitted, sentVals, mode, connVars>>

\* Ok(convert_ws_message(Some(self.read_message()?)))
recv_json_ret(r) ==
    IF ~r.ok THEN RetErr(r.err) ELSE RetOk(convert_ws_message(r.opt))

\* Ok(convert_ws_message(self.read_message().no_block()?))
try_recv_json_ret(r) ==
    LET nb == no_block(r) IN
    IF ~nb.ok THEN RetErr(nb.err) ELSE RetOk(convert_ws_message(nb.opt))

recv_json_call == Entered("recv_json")

recv_json_return ==
    Received("recv_json", read_message, recv_json_ret(read_message.ret))

recv_json == recv_json_call \/ recv_json_return

try_recv_json_call == Entered("try_recv_json")

try_recv_json_return ==
    Received("try_recv_json", read_message,
             try_recv_json_ret(read_message.ret))

try_recv_json == try_recv_json_call \/ try_recv_json_return

\* as send_json, the serialization sent deflated in a Binary frame
send_json_compressed(value) ==
    LET w == write_message(Frame("Binary", <<"Z">> \o to_string(value))) IN
    /\ pc = "idle"
    /\ (w.ok => Len(sentVals) < MaxSends)
    /\ transmitted' = w.transmitted
    /\ pong' = w.pong
    /\ sentVals' = IF w.ok THEN Append(sentVals, value) ELSE sentVals
    /\ last' = Call("send_json", NoMsg,
                    IF w.ok THEN RetOk(NoEvent) ELSE RetErr(w.err))
    /\ UNCHANGED <<arrived, consumed, stream, log, dead, pc, mode, connVars>>

send_json(value) ==
    LET w == write_message(Frame("Text", to_string(value))) IN
    /\ pc = "idle"
    /\ (w.ok => Len(sentVals) < MaxSends)
    /\ transmitted' = w.transmitted
    /\ pong' = w.pong
    /\ sentVals' = IF w.ok THEN Append(sentVals, value) ELSE sentVals
    /\ last' = Call("send_json", NoMsg,
                    IF w.ok THEN RetOk(NoEvent) ELSE RetErr(w.err))
    /\ UNCHANGED <<arrived, consumed, stream, log, dead, pc, mode, connVars>>

(***************************************************************************)
(* The peer and the stream.                                                *)
(***************************************************************************)
\* the peer sends a frame; nothing follows its Close
PeerSends(f) ==
    /\ stream = "open"
    /\ ~PeerClosed
    /\ Len(arrived) < MaxFrames
    /\ arrived' = Append(arrived, f)
    /\ UNCHANGED <<consumed, stream, pong, transmitted, sentVals, log, last,
                   dead, pc, mode, connVars>>

\* after its Close the peer shuts the stream
PeerShuts ==
    /\ stream = "open"
    /\ PeerClosed
    /\ stream' = "eof"
    /\ UNCHANGED <<arrived, consumed, pong, transmitted, sentVals, log, last,
                   dead, pc, mode, connVars>>

\* the stream breaks
StreamFails ==
    /\ stream = "open"
    /\ stream' = "failed"
    /\ UNCHANGED <<arrived, consumed, pong, transmitted, sentVals, log, last,
                   dead, pc, mode, connVars>>

\* what the peer's receive path makes of the i-th frame it was sent
PeerReceives(i) == recv_json_ret(ReadOk(transmitted[i]))

EstablishedHost == <<"a", ".", "a">>

CodecInit ==
    /\ arrived = <<>>
    /\ consumed = 0
    /\ stream = "open"
    /\ pong = NoPong
    /\ transmitted = <<>>
    /\ sentVals = <<>>
    /\ log = <<>>
    /\ last = [op |-> "none", wasDead |-> FALSE, got |-> NoMsg,
               ret |-> RetOk(NoEvent)]
    /\ dead = FALSE
    /\ pc = "idle"

\* the codec starts on a client that create_rustls_client has returned, its
\* stream as connected or with a read timeout set by the caller
Init ==
    /\ CodecInit
    /\ mode \in StreamModes
    /\ host = [some |-> TRUE, h |-> EstablishedHost]
    /\ tcpOk = TRUE /\ certTrusted = TRUE /\ upgradeOk = TRUE
    /\ baseHost = EstablishedHost
    /\ connPc = "done"
    /\ stages = <<"name", "socket", "upgrade">>
    /\ sockets = 1
    /\ connResult = [ok |-> TRUE, err |-> "none"]

Next ==
    \/ \E f \in Frames : PeerSends(f)
    \/ PeerShuts
    \/ StreamFails
    \/ recv_json
    \/ try_recv_json
    \/ \E v \in Values : send_json(v)

Spec == Init /\ [][Next]_vars

(***************************************************************************)
(* create_rustls_client (lines 156-180).                                   *)
(***************************************************************************)
HostChars == {"a", "."}
Hosts == UNION {[1..n -> HostChars] : n \in 1..MaxHostLen}
\* Option<&str> of url.host_str()
NoHost == [some |-> FALSE, h |-> <<>>]
SomeHost(h) == [some |-> TRUE, h |-> h]
HostOpts == {NoHost} \cup {SomeHost(h) : h \in Hosts}

FallbackDomain == <<"d", "i", "s", "c", "o", "r", "d", ".", "g", "g">>

\* 0-based byte offsets of the '.' of h
DotOffsets(h) == {i - 1 : i \in {j \in 1..Len(h) : h[j] = "."}}
Max(S) == CHOOSE x \in S : \A y \in S : y <= x

\* h.rmatch_indices('.').nth(1).unwrap_or((0, "")), the offset only
rmatch_nth1(h) ==
    LET dots == DotOffsets(h) IN
    IF Cardinality(dots) >= 2 THEN Max(dots \ {Max(dots)}) ELSE 0

\* lines 160-167
base_host(url_host) ==
    IF url_host.some
    THEN LET h == url_host.h
             dot == rmatch_nth1(h)
             split_at_index == IF dot = 0 THEN 0 ELSE dot + 1
         IN  SubSeq(h, split_at_index + 1, Len(h))
    ELSE FallbackDomain

\* webpki::DNSNameRef::try_from_ascii_str: the name is not empty and has no
\* empty label, but for one '.' at its very end.
try_from_ascii_str(name) ==
    /\ name # <<>>
    /\ name[1] # "."
    /\ \A i \in 1..(Len(name) - 1) : ~(name[i] = "." /\ name[i + 1] = ".")

\* TcpStream::connect(&url): there is a host to resolve and it accepts
socket_opens(url_host, tcp) == url_host.some /\ tcp

\* tungstenite::client over the rustls stream: the TLS handshake, in which
\* the certificate is validated, runs with the first exchange of the upgrade
client_handshake(cert, upgrade) == cert /\ upgrade

ConnOk == [ok |-> TRUE, err |-> "none"]
ConnErr(e) == [ok |-> FALSE, err |-> e]

\* what the call returns, the fallible stages it ran and the sockets it opened
\* as connect_outcome, the socket opened before the name is validated
connect_outcome_socket_first(url_host, tcp, cert, upgrade) ==
    LET name == base_host(url_host) IN
    IF ~socket_opens(url_host, tcp)
    THEN [result |-> ConnErr("Io"), stages |-> <<"socket">>, sockets |-> 0]
    ELSE IF ~try_from_ascii_str(name)
    THEN [result |-> ConnErr("WebPKI"), stages |-> <<"socket", "name">>,
          sockets |-> 1]
    ELSE IF ~client_handshake(cert, upgrade)
    THEN [result |-> ConnErr("HandshakeError"),
          stages |-> <<"socket", "name", "upgrade">>, sockets |-> 1]
    ELSE [result |-> ConnOk, stages |-> <<"socket", "name", "upgrade">>,
          sockets |-> 1]

connect_outcome(url_host, tcp, cert, upgrade) ==
    LET name == base_host(url_host) IN
    IF ~try_from_ascii_str(name)
    THEN [result |-> ConnErr("WebPKI"), stages |-> <<"name">>, sockets |-> 0]
    ELSE IF ~socket_opens(url_host, tcp)
    THEN [result |-> ConnErr("Io"), stages |-> <<"name", "socket">>,
          sockets |-> 0]
    ELSE IF ~client_handshake(cert, upgrade)
    THEN [result |-> ConnErr("HandshakeError"),
          stages |-> <<"name", "socket", "upgrade">>, sockets |-> 1]
    ELSE [result |-> ConnOk, stages |-> <<"name", "socket", "upgrade">>,
          sockets |-> 1]

create_rustls_client(url_host, tcp, cert, upgrade) ==
    LET out == connect_outcome(url_host, tcp, cert, upgrade) IN
    /\ connPc = "idle"
    /\ host' = url_host
    /\ tcpOk' = tcp
    /\ certTrusted' = cert
    /\ upgradeOk' = upgrade
    /\ baseHost' = base_host(url_host)
    /\ stages' = out.stages
    /\ sockets' = out.sockets
    /\ connResult' = out.result
    /\ connPc' = "done"
    /\ UNCHANGED codecVars

ConnectInit ==
    /\ CodecInit
    /\ mode = "blocking"
    /\ host = NoHost
    /\ tcpOk = FALSE /\ certTrusted = FALSE /\ upgradeOk = FALSE
    /\ baseHost = <<>>
    /\ connPc = "idle"
    /\ stages = <<>>
    /\ sockets = 0
    /\ connResult = ConnErr("none")

ConnectNext ==
    \E h \in HostOpts, t \in BOOLEAN, c \in BOOLEAN, u \in BOOLEAN :
        create_rustls_client(h, t, c, u)

ConnectSpec == ConnectInit /\ [][ConnectNext]_vars

(***************************************************************************)
(* Properties of the codec (Spec).                                         *)
(***************************************************************************)
RecvOps == {"recv_json", "try_recv_json"}
IsData(f) == f.kind \in {"Text", "Binary"}

\* The decoding a data frame has by the contract: a Binary frame is inflated
\* and the inflated bytes parsed, a Text frame is parsed as it is.
RefDecode(f) ==
    IF f.kind = "Binary"
    THEN IF ZlibDecoder(f.data).ok THEN from_str(ZlibDecoder(f.data).data)
         ELSE ErrV("Json")
    ELSE from_str(f.data)

\* what a receive call owes its caller for the frame f
RefEvent(f) ==
    IF IsData(f) THEN SomeEvent(WsEvent(f), RefDecode(f)) ELSE NoEvent

\* the inflated content of a Binary frame, or the text of a Text frame, is
\* there but does not parse
Unparseable(f) ==
    \/ f.kind = "Binary" /\ ZlibDecoder(f.data).ok
                         /\ ~from_str(ZlibDecoder(f.data).data).ok
    \/ f.kind = "Text" /\ ~from_str(f.data).ok

\* C1: a receive call, blocking or polling, that read a data frame whose
\* content - inflated first for Binary, as it is for Text - parses to V
\* returns Ok(Some((event, Ok(V)))); a Text frame is never inflated and a
\* Binary frame never parsed raw: a Binary frame that does not inflate to
\* the text of a value, and a Text frame that is not one, give no Ok(V).
C1_DecodedAsReference ==
    (last.op \in RecvOps /\ last.got.some /\ IsData(last.got.msg)) =>
        LET f == last.got.msg IN
        /\ RefDecode(f).ok =>
               last.ret = RetOk(SomeEvent(WsEvent(f), OkV(RefDecode(f).val)))
        /\ (f.kind = "Binary" /\ ~RefDecode(f).ok) =>
               ~(last.ret.ok /\ last.ret.opt.some /\ last.ret.opt.res.ok)
        /\ (f.kind = "Text" /\ ~from_str(f.data).ok) =>
               ~(last.ret.ok /\ last.ret.opt.some /\ last.ret.opt.res.ok)

\* a polling call has read the Binary frame that inflates to " 12"
C1_Witness ==
    /\ last.op = "try_recv_json"
    /\ last.got = SomeMsg(Frame("Binary", <<"Z", " ", "1", "2">>))
    /\ last.ret.ok /\ last.ret.opt.some
    /\ last.ret.opt.res = OkV(Num(12))

\* the frames send_json wrote, the Pong replies of the transport left out
SentFrames == SelectSeq(transmitted, LAMBDA f : f.kind # "Pong")
SentAt == {i \in 1..Len(transmitted) : transmitted[i].kind # "Pong"}

RECURSIVE FailedUpTo(_)
FailedUpTo(n) ==
    IF n = 0 THEN <<>>
    ELSE IF IsData(arrived[n]) /\ ~RefDecode(arrived[n]).ok
         THEN Append(FailedUpTo(n - 1), arrived[n])
         ELSE FailedUpTo(n - 1)

\* C3: a receive call that read a frame whose content does not parse returns
\* the event with Err(Malformed), not NoMessage, and the log holds one record
\* for each failed frame, in order, with the bytes or text of the frame as it
\* arrived.
C3_MalformedSurfacedAndLogged ==
    /\ (last.op \in RecvOps /\ last.got.some /\ Unparseable(last.got.msg)) =>
           /\ last.ret = RetOk(SomeEvent(WsEvent(last.got.msg), ErrV("Json")))
           /\ log # <<>>
           /\ log[Len(log)].data = last.got.msg.data
           /\ log[Len(log)].what =
                  (IF last.got.msg.kind = "Binary" THEN "bytes" ELSE "text")
    /\ Len(log) = Len(FailedUpTo(consumed))
    /\ \A i \in 1..Len(log) : log[i].data = FailedUpTo(consumed)[i].data

\* a blocking call has read the Binary frame that inflates to "1n"
C3_Witness ==
    /\ last.op = "recv_json"
    /\ last.got = SomeMsg(Frame("Binary", <<"Z", "1", "n">>))
    /\ last.ret.ok /\ last.ret.opt.some /\ ~last.ret.opt.res.ok
    /\ log[Len(log)].data = <<"Z", "1", "n">>

IsPrefix(a, b) == Len(a) <= Len(b) /\ a = SubSeq(b, 1, Len(a))

\* the payloads of the Ping frames among the first n frames read
RECURSIVE PingsUpTo(_)
PingsUpTo(n) ==
    IF n <= 0 THEN <<>>
    ELSE IF arrived[n].kind = "Ping"
         THEN Append(PingsUpTo(n - 1), arrived[n].data)
         ELSE PingsUpTo(n - 1)

\* the payloads of the Pong frames written to the peer
RECURSIVE PongsIn(_)
PongsIn(t) ==
    IF t = <<>> THEN <<>>
    ELSE IF Head(t).kind = "Pong" THEN <<Head(t).data>> \o PongsIn(Tail(t))
         ELSE PongsIn(Tail(t))

\* C4: a receive call that read a Ping or a Pong returns Ok(None), never a
\* decoded payload; and once a further frame has been read after a Ping, a
\* Pong with the payload of that Ping has gone out - the Pongs written are,
\* in order, the payloads of the Pings read, the last of them at most
\* pending.
C4_PingNeverSurfacedPongOwed ==
    /\ (last.op \in RecvOps /\ last.got.some
            /\ last.got.msg.kind \in {"Ping", "Pong"}) =>
           last.ret = RetOk(NoEvent)
    /\ IsPrefix(PingsUpTo(consumed - 1), PongsIn(transmitted))
    /\ IsPrefix(PongsIn(transmitted), PingsUpTo(consumed))

\* Ping "2" was read, then a blocking call read Ping "1": the call returned
\* Ok(None) and the Pong "2" is out
C4_Witness ==
    /\ consumed = 2
    /\ arrived[1] = Frame("Ping", <<"2">>)
    /\ last.op = "recv_json"
    /\ last.got = SomeMsg(Frame("Ping", <<"1">>))
    /\ last.ret = RetOk(NoEvent)
    /\ PongsIn(transmitted) = << <<"2">> >>

\* C5: on a polling stream try_recv_json never waits - once the caller is
\* inside the call its return can be taken, whatever the peer and the stream
\* do - and returning with no frame queued on an open stream it gives
\* Ok(None) and consumes nothing; with the stream failed, or shut by the
\* peer with nothing left to read, it gives that error, not Ok(None); and
\* Ok(None) otherwise comes only from reading a frame that is not data.
C5_PollingNoMessage ==
    [][/\ (pc' = "try_recv_json" /\ mode' # "blocking") =>
              (ENABLED try_recv_json_return)'
       /\ (pc = "try_recv_json" /\ pc' = "idle" /\ mode # "blocking") =>
             /\ (stream = "open" /\ consumed = Len(arrived)) =>
                    /\ last'.ret = RetOk(NoEvent)
                    /\ ~last'.got.some
                    /\ consumed' = consumed /\ arrived' = arrived
                    /\ log' = log /\ transmitted' = transmitted
             /\ stream = "failed" => last'.ret = RetErr("Io")
             /\ (stream = "eof" /\ consumed = Len(arrived)) =>
                    last'.ret = RetErr("ConnectionClosed")
             /\ last'.ret = RetOk(NoEvent) =>
                    \/ stream = "open" /\ consumed = Len(arrived)
                    \/ /\ consumed < Len(arrived) /\ consumed' = consumed + 1
                       /\ ~(IsData(arrived[consumed + 1]))
         ]_vars

\* C7: every call made after a receive call has seen the peer's Close or a
\* failure of the stream returns an error.
C7_DeadConnectionFails ==
    last.wasDead => ~last.ret.ok

\* C8: a receive call that reads a frame reads the next one in arrival order
\* and returns the decoding of that frame alone, whatever was read before;
\* and when the decoding fails, nothing of the connection changes but the
\* frame being consumed (and the Pong owed being flushed).
C8_DecodeFailureNotTerminal ==
    [][(consumed' # consumed) =>
          LET f == arrived[consumed + 1] IN
          /\ consumed' = consumed + 1
          /\ arrived' = arrived
          /\ last'.op \in RecvOps
          /\ last'.got = SomeMsg(f)
          /\ last'.ret = RetOk(RefEvent(f))
          /\ (IsData(f) /\ ~RefDecode(f).ok) =>
                 /\ stream' = stream
                 /\ dead' = dead
                 /\ sentVals' = sentVals
                 /\ SelectSeq(transmitted', LAMBDA x : x.kind # "Pong")
                        = SelectSeq(transmitted, LAMBDA x : x.kind # "Pong")
      ]_vars

\* the frame after a malformed one was read and decoded
C8_Witness ==
    /\ consumed = 2
    /\ arrived[1] = Frame("Text", <<"1", "n">>)
    /\ last.op \in RecvOps
    /\ last.got = SomeMsg(Frame("Text", <<" ", "1", "2">>))
    /\ last.ret = RetOk(SomeEvent(WsEvent(last.got.msg), OkV(Num(12))))
    /\ ~dead

(***************************************************************************)
(* Properties of create_rustls_client (ConnectSpec).                       *)
(***************************************************************************)
DotCount(str) == Cardinality({i \in 1..Len(str) : str[i] = "."})

\* 1-based position of the second '.' from the right of a string with two
SecondDotFromRight(str) ==
    LET ps == {i \in 1..Len(str) : str[i] = "."} IN Max(ps \ {Max(ps)})

\* C6: the call against a host that presents an untrusted certificate
\* returns the WebPKI error.
C6_UntrustedCertIsWebPKI ==
    (/\ connPc = "done" /\ host.some /\ try_from_ascii_str(baseHost)
     /\ tcpOk /\ ~certTrusted) =>
        connResult = ConnErr("WebPKI")

\* C9: the validation name is the host from just after its second '.' from
\* the right - so it has one '.' and does not begin with one -, the whole
\* host when it has fewer than two '.', and discord.gg without a host.
C9_SecondDotGroup ==
    connPc = "done" =>
        IF ~host.some THEN baseHost = FallbackDomain
        ELSE IF DotCount(host.h) >= 2
        THEN /\ baseHost = SubSeq(host.h, SecondDotFromRight(host.h) + 1,
                                  Len(host.h))
             /\ DotCount(baseHost) = 1
             /\ baseHost[1] # "."
        ELSE baseHost = host.h

\* C10: the call runs name validation, socket open and handshake in that
\* order and stops at the first that fails with the error of that stage; it
\* returns a client only when all three succeeded, and opens no socket when
\* the name is rejected.
C10_NoPartialConnection ==
    connPc = "done" =>
        LET nameOk == try_from_ascii_str(base_host(host))
            sockOk == socket_opens(host, tcpOk)
            shakeOk == client_handshake(certTrusted, upgradeOk)
        IN  /\ connResult.ok <=> (nameOk /\ sockOk /\ shakeOk)
            /\ connResult.ok =>
                   stages = <<"name", "socket", "upgrade">> /\ sockets = 1
            /\ ~nameOk =>
                   /\ connResult = ConnErr("WebPKI")
                   /\ stages = <<"name">> /\ sockets = 0
            /\ (nameOk /\ ~sockOk) =>
                   /\ connResult = ConnErr("Io")
                   /\ stages = <<"name", "socket">> /\ sockets = 0
            /\ (nameOk /\ sockOk /\ ~upgradeOk) =>
                   /\ connResult = ConnErr("HandshakeError")
                   /\ stages = <<"name", "socket", "upgrade">>

\* a reachable host with a rejected name: the call stopped before the socket
C10_Witness ==
    /\ connPc = "done"
    /\ host.some /\ tcpOk /\ certTrusted /\ upgradeOk
    /\ ~try_from_ascii_str(baseHost)
    /\ connResult = ConnErr("WebPKI")
    /\ sockets = 0

====
